---- MODULE Spec2Model ----
(***************************************************************************)
(* Model of src/ens_client.py (class ENSClient): ENS name resolution with  *)
(* an in-memory cache mirrored to a JSON document on disk.                 *)
(*                                                                         *)
(* Strings are sequences of one-character strings, so that lower(),        *)
(* startswith(), endswith() and concatenation are computed, not assumed.   *)
(* Python's None and a missing dict key are the one-element sequences      *)
(* None and Missing, which no string equals.                               *)
(***************************************************************************)
EXTENDS Integers, Sequences, FiniteSets, TLC

VARIABLES
    now,        \* time.time(), in seconds
    cache_ttl,  \* self._cache_ttl, fixed by the configuration
    disk,       \* the file ~/.grtinfo/ens_cache.json
    cache,      \* self._cache, an insertion-ordered dict
    last,       \* the most recent call on the instance: arguments, result, effects
    seen,       \* per key: what the first resolve_address of this instance returned
    found,      \* per key: the name the last resolve_addresses_batch reported for it
    negAt,      \* per key: when a lookup last got no match for it (-1: never)
    dropped,    \* keys whose timestamped entry the load of this instance dropped
    legacyAt,   \* per key: when a load first and last read it as a bare value (-1: never)
    threads,    \* per thread calling into the instance: its call and where it is in it
    peer,       \* self._cache of a second instance that uses the same file
    savedBy     \* the instance whose _save_cache wrote the file last (0: none yet)

vars == <<now, cache_ttl, disk, cache, last, seen, found, negAt, dropped, legacyAt,
          threads, peer, savedBy>>

\* What the calls of one thread on one instance leave alone.
aside == <<threads, peer, savedBy>>

----------------------------------------------------------------------------
(* Bounds of the model. *)

MaxTime == 2      \* the clock runs from 0 to MaxTime
TTL == 2          \* the configured cache_ttl, in seconds
MaxResults == 2   \* number of domains a name search returns
MaxHalfHours == 3 \* half hours the clock runs when it moves by half hours

(* Program constants. *)

Grace == 3600     \* seconds a legacy entry stays fresh after its load

----------------------------------------------------------------------------
(* Strings and Python values. *)

None == <<"None">>
Missing == <<"Missing">>
Unset == <<"Unset">>
EmptyStr == <<>>

LowerChar(c) ==
    CASE c = "A" -> "a"
      [] c = "B" -> "b"
      [] c = "E" -> "e"
      [] c = "F" -> "f"
      [] c = "H" -> "h"
      [] c = "O" -> "o"
      [] c = "T" -> "t"
      [] c = "U" -> "u"
      [] c = "X" -> "x"
      [] OTHER -> c

\* str.lower()
Lower(s) == [i \in DOMAIN s |-> LowerChar(s[i])]

\* str.startswith(prefix)
StartsWith(s, p) == Len(s) >= Len(p) /\ SubSeq(s, 1, Len(p)) = p

\* str.endswith(suffix)
EndsWith(s, p) == Len(s) >= Len(p) /\ SubSeq(s, Len(s) - Len(p) + 1, Len(s)) = p

\* Python truthiness of a str-or-None value: None and '' are false.
Truthy(v) == v # None /\ v # Missing /\ v # EmptyStr

\* The literal the callers pass for an address they do not have.
Unknown == <<"U", "n", "k", "n", "o", "w", "n">>

AddrA == <<"0", "x", "a">>
AddrAUpper == <<"0", "x", "A">>
AddrB == <<"0", "x", "b">>
AddrBUpper == <<"0", "X", "B">>

\* What callers pass as an address: 0x strings in either case, '', 'Unknown'.
Addresses == {AddrA, AddrAUpper, AddrB, EmptyStr, Unknown}

\* The cache keys these addresses lead to.
Keys == {AddrA, AddrB}

NameOne == <<"n", "1">>
NameTwo == <<"n", "2">>
Names == {NameOne, NameTwo}

----------------------------------------------------------------------------
(* Python dicts that keep insertion order: sequences of items with unique k.  *)
(* Record fields are written throughout in the order in which TLC keeps them, *)
(* so that no worker has to reorder a record another worker is reading.      *)

\* An item of a dict: key k, value v.
Item(k, v) == [v |-> v, k |-> k]

DictHas(d, k) == \E i \in DOMAIN d : d[i].k = k

DictGet(d, k) == d[CHOOSE i \in DOMAIN d : d[i].k = k].v

\* Faulty variant of d[k] = v: a second item when the key is there already.
DictPutAppend(d, k, v) == Append(d, Item(k, v))

\* d[k] = v: the value of an existing key is replaced in place.
DictPut(d, k, v) ==
    IF DictHas(d, k)
    THEN [i \in DOMAIN d |-> IF d[i].k = k THEN Item(k, v) ELSE d[i]]
    ELSE Append(d, Item(k, v))

DictKeys(d) == {d[i].k : i \in DOMAIN d}

\* Two dicts are the same mapping (dict equality ignores order).
SameMapping(d, e) ==
    /\ DictKeys(d) = DictKeys(e)
    /\ \A k \in DictKeys(d) : DictGet(d, k) = DictGet(e, k)

\* A cache entry {'name': ..., 'timestamp': ...}.
Entry(name, ts) == [name |-> name, tag |-> "entry", timestamp |-> ts]

\* A legacy document value: a bare string or null.
Bare(name) == [name |-> name, tag |-> "bare", timestamp |-> 0]

----------------------------------------------------------------------------
(* The cache file. *)

NoFile == [kind |-> "absent", doc |-> <<>>]

JsonFile(doc) == [kind |-> "json", doc |-> doc]

\* Files _load_cache cannot use: open() is refused, the content is not JSON,
\* the JSON value is a list and has no items().
Unreadable == [kind |-> "unreadable", doc |-> <<>>]
NotJson == [kind |-> "garbage", doc |-> <<>>]
NotMapping == [kind |-> "list", doc |-> <<>>]

\* A document value {'name': ..., 'timestamp': ...} whose timestamp is a string.
BadTimestamp(name) == [name |-> name, tag |-> "badts", timestamp |-> 0]

\* Faulty variants of the TTL test: no test at all, and age ttl kept.
FreshAlways(t, ts, ttl) == TRUE
FreshInclusive(t, ts, ttl) == t - ts <= ttl

\* The TTL test of _load_cache: an entry of age exactly ttl is not fresh.
Fresh(t, ts, ttl) == t - ts < ttl

\* Faulty variant of the loop: legacy values are not converted.
RECURSIVE LoadItemsNoLegacy(_, _, _, _, _)
LoadItemsNoLegacy(doc, i, acc, t, ttl) ==
    IF i > Len(doc) THEN acc
    ELSE IF doc[i].v.tag = "entry" /\ Fresh(t, doc[i].v.timestamp, ttl)
         THEN LoadItemsNoLegacy(doc, i + 1, DictPut(acc, doc[i].k, doc[i].v), t, ttl)
         ELSE LoadItemsNoLegacy(doc, i + 1, acc, t, ttl)

\* Faulty variant of the loop: legacy values get the time of the load as
\* timestamp, hence the whole ttl.
RECURSIVE LoadItemsLegacyFullTtl(_, _, _, _, _)
LoadItemsLegacyFullTtl(doc, i, acc, t, ttl) ==
    IF i > Len(doc) THEN acc
    ELSE IF doc[i].v.tag = "entry" /\ Fresh(t, doc[i].v.timestamp, ttl)
         THEN LoadItemsLegacyFullTtl(doc, i + 1, DictPut(acc, doc[i].k, doc[i].v), t, ttl)
         ELSE IF doc[i].v.tag = "bare"
         THEN LoadItemsLegacyFullTtl(doc, i + 1,
                                     DictPut(acc, doc[i].k, Entry(doc[i].v.name, t)),
                                     t, ttl)
         ELSE LoadItemsLegacyFullTtl(doc, i + 1, acc, t, ttl)

\* Faulty variant of the loop: a fresh entry gets the time of the load as
\* timestamp.
RECURSIVE LoadItemsRestamped(_, _, _, _, _)
LoadItemsRestamped(doc, i, acc, t, ttl) ==
    IF i > Len(doc) THEN acc
    ELSE IF doc[i].v.tag = "entry" /\ Fresh(t, doc[i].v.timestamp, ttl)
         THEN LoadItemsRestamped(doc, i + 1,
                                 DictPut(acc, doc[i].k, Entry(doc[i].v.name, t)), t, ttl)
         ELSE IF doc[i].v.tag = "bare"
         THEN LoadItemsRestamped(doc, i + 1,
                                 DictPut(acc, doc[i].k,
                                         Entry(doc[i].v.name, t - ttl + Grace)),
                                 t, ttl)
         ELSE LoadItemsRestamped(doc, i + 1, acc, t, ttl)

\* _load_cache: the loop over cache_data.items(), from position i on.
RECURSIVE LoadItems(_, _, _, _, _)
LoadItems(doc, i, acc, t, ttl) ==
    IF i > Len(doc) THEN acc
    ELSE LET addr == doc[i].k
             entry == doc[i].v
         IN  IF entry.tag = "entry"
             THEN IF Fresh(t, entry.timestamp, ttl)
                  THEN LoadItems(doc, i + 1, DictPut(acc, addr, entry), t, ttl)
                  ELSE LoadItems(doc, i + 1, acc, t, ttl)
             ELSE IF entry.tag = "badts"
             THEN acc   \* now - entry['timestamp'] raises: the loop ends here
             ELSE IF entry.tag = "bare"
             THEN LoadItems(doc, i + 1,
                            DictPut(acc, addr, Entry(entry.name, t - ttl + Grace)),
                            t, ttl)
             ELSE LoadItems(doc, i + 1, acc, t, ttl)

\* _load_cache into the empty dict __init__ made.
LoadCache(d, t, ttl) ==
    IF d.kind = "json" THEN LoadItems(d.doc, 1, <<>>, t, ttl) ELSE <<>>

\* Faulty variant of _save_cache: negative entries are not written.
SaveCachePositivesOnly(d, c, ok) ==
    IF ok THEN JsonFile(SelectSeq(c, LAMBDA e : e.v.name # None)) ELSE d

\* Faulty variant of _save_cache: what the document has and the cache has not
\* is kept.
SaveCacheMerged(d, c, ok) ==
    IF ok
    THEN JsonFile(SelectSeq(d.doc, LAMBDA e : ~DictHas(c, e.k)) \o c)
    ELSE d

\* _save_cache: ok is whether mkdir and open succeed; a failure is swallowed.
SaveCache(d, c, ok) == IF ok THEN JsonFile(c) ELSE d

----------------------------------------------------------------------------
(* The transport: ENSClient.query and the shapes of what it returns. *)

\* A GraphQL payload: the object under 'data', or null.
Payload(domains) == [tag |-> "dict", domains |-> domains, hasDomains |-> TRUE]
EmptyDict == [tag |-> "dict", domains |-> <<>>, hasDomains |-> FALSE]
NullPayload == [tag |-> "none", domains |-> <<>>, hasDomains |-> FALSE]

\* What the HTTP exchange does: "raise" (timeout, connection error, non-2xx,
\* body that is not JSON), "errors" (an error list), "nodata" (no 'data' key),
\* "data" (a payload).
Outcome(kind, data) == [kind |-> kind, data |-> data]
Failures == {Outcome("raise", EmptyDict), Outcome("errors", EmptyDict)}

\* ENSClient.query: every failure becomes {}.
Query(outcome) == IF outcome.kind = "data" THEN outcome.data ELSE EmptyDict

\* A record of 'domains'. resolvedAddress is absent, null or an object.
RaMissing == [tag |-> "missing", id |-> Missing]
RaNull == [tag |-> "null", id |-> Missing]
RaId(id) == [tag |-> "dict", id |-> id]
Rec(name, ra) == [name |-> name, ra |-> ra]

\* dict.get('name'): None when the key is absent.
GetName(domain) == IF domain.name = Missing THEN None ELSE domain.name

\* Truthiness of domain.get('resolvedAddress', {}): None and {} are false.
RaTruthy(ra) == ra.tag = "dict" /\ ra.id # Missing

\* One transport call, as the stub records it.
Call(q, v) == [v |-> v, q |-> q]

----------------------------------------------------------------------------
(* resolve_address *)

\* Faulty variant of the key: the address as given, not lowercased.
CacheKeyAsGiven(address) == address

\* The key resolve_address and resolve_addresses_batch look up and store under.
CacheKey(address) == Lower(address)

\* Faulty variant: a hit returns nothing.
CachedNameForgotten(c, key) == None

\* A cache hit returns entry.get('name').
CachedName(c, key) == DictGet(c, key).name

\* result.get('domains', []) raises on a payload that is null.
GetRaises(result) == result.tag = "none"
GetDomains(result) == IF result.hasDomains THEN result.domains ELSE <<>>

\* Faulty variant: the name found is returned and not cached.
CachePositiveSkipped(c, key, name, t) == c

\* resolve_address caches the name it found.
CachePositive(c, key, name, t) == DictPut(c, key, Entry(name, t))

\* Faulty variant: the negative result is not cached.
CacheNegativeSkipped(c, key, t) == c

\* Faulty variant: the negative result is cached with an older timestamp.
CacheNegativeBackdated(c, key, t) == DictPut(c, key, Entry(None, t - 1))

\* resolve_address caches a negative result.
CacheNegative(c, key, t) == DictPut(c, key, Entry(None, t))

\* What a call did: the new cache and file, the value returned, the transport
\* calls made, the number of _save_cache calls, whether an exception escaped.
Effect(c, d, ret, calls, saves, raised) ==
    [disk |-> d, cache |-> c, ret |-> ret, calls |-> calls, saves |-> saves,
     raised |-> raised]

\* The name the try block of resolve_address finds, or None.
SingleName(result) ==
    IF GetRaises(result) THEN None
    ELSE LET domains == GetDomains(result)
         IN  IF domains # <<>> /\ Truthy(GetName(domains[1]))
             THEN GetName(domains[1])
             ELSE None

resolve_address(c, d, address, outcome, saveOk, t) ==
    IF address = EmptyStr \/ address = Unknown
    THEN Effect(c, d, None, <<>>, 0, FALSE)
    ELSE LET address_lower == CacheKey(address)
         IN  IF DictHas(c, address_lower)
             THEN Effect(c, d, CachedName(c, address_lower), <<>>, 0, FALSE)
             ELSE LET name == SingleName(Query(outcome))
                      c2 == IF name # None
                            THEN CachePositive(c, address_lower, name, t)
                            ELSE CacheNegative(c, address_lower, t)
                  IN  Effect(c2, SaveCache(d, c2, saveOk), name,
                             <<Call("ResolveAddress", address_lower)>>, 1, FALSE)

----------------------------------------------------------------------------
(* resolve_addresses_batch *)

\* Faulty variant of addresses_lower: the inputs are kept in their letter case.
RECURSIVE AddressesLowerAsGiven(_)
AddressesLowerAsGiven(addresses) ==
    IF addresses = <<>> THEN <<>>
    ELSE IF Head(addresses) # EmptyStr /\ Head(addresses) # Unknown
         THEN <<Head(addresses)>> \o AddressesLowerAsGiven(Tail(addresses))
         ELSE AddressesLowerAsGiven(Tail(addresses))

\* addresses_lower: the non-empty, non-'Unknown' inputs, lowercased, in order.
RECURSIVE AddressesLower(_)
AddressesLower(addresses) ==
    IF addresses = <<>> THEN <<>>
    ELSE LET addr == Head(addresses)
             rest == AddressesLower(Tail(addresses))
         IN  IF addr # EmptyStr /\ addr # Unknown
             THEN <<CacheKey(addr)>> \o rest
             ELSE rest

\* Faulty variant of the cache check: every address is asked again.
CheckCacheAllMisses(c, al, i, acc) == [acc EXCEPT !.to_query = al]

\* The cache check: acc.results takes the cached names, acc.to_query the rest.
RECURSIVE CheckCache(_, _, _, _)
CheckCache(c, al, i, acc) ==
    IF i > Len(al) THEN acc
    ELSE IF DictHas(c, al[i])
         THEN CheckCache(c, al, i + 1,
                  [acc EXCEPT !.results = DictPut(@, al[i], CachedName(c, al[i]))])
         ELSE CheckCache(c, al, i + 1,
                  [acc EXCEPT !.to_query = Append(@, al[i])])

\* Faulty variant: the batch reports the name and does not cache it.
BatchCachePositiveSkipped(c, addr, name, t) == c

\* The batch caches the name of a returned domain.
BatchCachePositive(c, addr, name, t) == DictPut(c, addr, Entry(name, t))

\* Faulty variant: the address that was not returned is reported, not cached.
BatchCacheNegativeSkipped(c, addr, t) == c

\* The batch caches a negative result for an address that was not returned.
BatchCacheNegative(c, addr, t) == DictPut(c, addr, Entry(None, t))

\* domain.get('resolvedAddress', {}).get('id', '').lower() raises on a null
\* resolvedAddress and on a null id.
AddrRaises(domain) ==
    \/ domain.ra.tag = "null"
    \/ domain.ra.tag = "dict" /\ domain.ra.id = None

DomainAddr(domain) ==
    IF domain.ra.tag = "missing" \/ domain.ra.id = Missing
    THEN EmptyStr
    ELSE Lower(domain.ra.id)

\* One pass of the loop over the returned domains, for the record at i.
BatchDomain(domains, i, acc, t) ==
    IF AddrRaises(domains[i]) THEN [acc EXCEPT !.raised = TRUE]
    ELSE LET addr == DomainAddr(domains[i])
             name == GetName(domains[i])
         IN  IF addr # EmptyStr /\ Truthy(name)
             THEN [acc EXCEPT !.results = DictPut(@, addr, name),
                              !.cache = BatchCachePositive(@, addr, name, t)]
             ELSE acc

\* The passes for the records i to j, in order; the loop stops where a record
\* raises. The range is halved so that a response of a hundred records is
\* evaluated in a few nested steps.
RECURSIVE BatchDomainsUpTo(_, _, _, _, _)
BatchDomainsUpTo(domains, i, j, acc, t) ==
    IF i > j THEN acc
    ELSE IF i = j THEN BatchDomain(domains, i, acc, t)
    ELSE LET mid == (i + j) \div 2
             left == BatchDomainsUpTo(domains, i, mid, acc, t)
         IN  IF left.raised THEN left
             ELSE BatchDomainsUpTo(domains, mid + 1, j, left, t)

\* The loop over the returned domains, from the record at i on.
BatchDomains(domains, i, acc, t) ==
    BatchDomainsUpTo(domains, i, Len(domains), acc, t)

\* The loop that caches a negative result for what the batch did not return.
RECURSIVE BatchNegatives(_, _, _, _)
BatchNegatives(to_query, i, acc, t) ==
    IF i > Len(to_query) THEN acc
    ELSE IF DictHas(acc.results, to_query[i])
         THEN BatchNegatives(to_query, i + 1, acc, t)
         ELSE BatchNegatives(to_query, i + 1,
                  [acc EXCEPT !.results = DictPut(@, to_query[i], None),
                              !.cache = BatchCacheNegative(@, to_query[i], t)], t)

\* Here ret is the dict of results.
resolve_addresses_batch(c, d, addresses, outcome, saveOk, t) ==
    LET addresses_lower == AddressesLower(addresses)
        checked == CheckCache(c, addresses_lower, 1,
                              [to_query |-> <<>>, results |-> <<>>])
        call == Call("ResolveAddresses", checked.to_query)
        result == Query(outcome)
        start == [cache |-> c, raised |-> FALSE, results |-> checked.results]
    IN  IF addresses_lower = <<>> THEN Effect(c, d, <<>>, <<>>, 0, FALSE)
        ELSE IF checked.to_query = <<>>
        THEN Effect(c, d, checked.results, <<>>, 0, FALSE)
        ELSE IF GetRaises(result)
        THEN Effect(c, d, checked.results, <<call>>, 0, FALSE)
        ELSE LET looped == BatchDomains(GetDomains(result), 1, start, t)
                 filled == BatchNegatives(checked.to_query, 1, looped, t)
             IN  IF looped.raised
                 THEN Effect(looped.cache, d, looped.results, <<call>>, 0, FALSE)
                 ELSE Effect(filled.cache, SaveCache(d, filled.cache, saveOk),
                             filled.results, <<call>>, 1, FALSE)

----------------------------------------------------------------------------
(* search_by_ens and resolve_name *)

DotEth == <<".", "e", "t", "h">>

\* What a name call did: the value returned, the transport calls made, whether
\* an exception escaped to the caller.
NameEffect(ret, calls, raised) == [ret |-> ret, calls |-> calls, raised |-> raised]

\* search_by_ens returns result.get('domains', []); nothing catches what it raises.
search_by_ens(partial_name, outcome) ==
    LET call == Call("SearchENS", Lower(partial_name))
        result == Query(outcome)
    IN  IF GetRaises(result) THEN NameEffect(<<>>, <<call>>, TRUE)
        ELSE NameEffect(GetDomains(result), <<call>>, FALSE)

\* Faulty variant: the exact match is never taken.
ExactReturnsIgnored(domains) == FALSE

\* Faulty variant: the stage returns whenever a domain came back.
ExactReturnsAnyDomain(domains) == domains # <<>>

\* An exact-match stage: whether it returns, and what.
ExactReturns(domains) == domains # <<>> /\ RaTruthy(domains[1].ra)
ExactValue(domains) == domains[1].ra.id

\* domain.get('name', '').lower() raises on a null name.
NameRaises(domain) == domain.name = None
DomainName(domain) ==
    IF domain.name = Missing THEN EmptyStr ELSE Lower(domain.name)

\* resolved and resolved.get('id')
HasResolvedId(domain) == RaTruthy(domain.ra) /\ Truthy(domain.ra.id)

\* The two tests of the loop: the search term followed by a separator, then
\* the search term alone.
SeparatorMatch(domain_name, name_lower) ==
    \/ StartsWith(domain_name, name_lower \o <<"-">>)
    \/ StartsWith(domain_name, name_lower \o <<".">>)

PrefixMatch(domain_name, name_lower) == StartsWith(domain_name, name_lower)

\* The candidate the loop returns at position i, given the two tests.
Accepts(domain, name_lower) ==
    \/ SeparatorMatch(DomainName(domain), name_lower)
    \/ PrefixMatch(DomainName(domain), name_lower)

\* The loop over the search results, then the last resort on domains[0].
RECURSIVE PartialLoop(_, _, _)
PartialLoop(domains, i, name_lower) ==
    IF i > Len(domains)
    THEN IF domains[1].ra.tag = "null"
         THEN [ret |-> None, raised |-> TRUE]
         ELSE IF domains[1].ra.tag = "dict" /\ Truthy(domains[1].ra.id)
         THEN [ret |-> domains[1].ra.id, raised |-> FALSE]
         ELSE [ret |-> None, raised |-> FALSE]
    ELSE IF NameRaises(domains[i]) THEN [ret |-> None, raised |-> TRUE]
    ELSE IF HasResolvedId(domains[i]) /\ Accepts(domains[i], name_lower)
    THEN [ret |-> domains[i].ra.id, raised |-> FALSE]
    ELSE PartialLoop(domains, i + 1, name_lower)

\* o1, o2, o3 answer the exact, the suffixed and the partial query.
resolve_name(name, o1, o2, o3) ==
    LET name_lower == Lower(name)
        name_with_eth == name_lower \o DotEth
        c1 == Call("ResolveName", name_lower)
        c2 == Call("ResolveName", name_with_eth)
        c3 == Call("ResolveNamePartial", name_lower)
        r1 == Query(o1)
        r2 == Query(o2)
        r3 == Query(o3)
        suffixed == ~EndsWith(name_lower, DotEth)
        before3 == IF suffixed THEN <<c1, c2>> ELSE <<c1>>
    IN  IF GetRaises(r1) THEN NameEffect(None, <<c1>>, TRUE)
        ELSE IF ExactReturns(GetDomains(r1))
        THEN NameEffect(ExactValue(GetDomains(r1)), <<c1>>, FALSE)
        ELSE IF suffixed /\ GetRaises(r2) THEN NameEffect(None, <<c1, c2>>, TRUE)
        ELSE IF suffixed /\ ExactReturns(GetDomains(r2))
        THEN NameEffect(ExactValue(GetDomains(r2)), <<c1, c2>>, FALSE)
        ELSE IF GetRaises(r3) THEN NameEffect(None, before3 \o <<c3>>, TRUE)
        ELSE IF GetDomains(r3) = <<>> THEN NameEffect(None, before3 \o <<c3>>, FALSE)
        ELSE LET found3 == PartialLoop(GetDomains(r3), 1, name_lower)
             IN  NameEffect(found3.ret, before3 \o <<c3>>, found3.raised)

----------------------------------------------------------------------------
(* The environment: what callers pass and what the name service answers. *)

\* The lists given to resolve_addresses_batch: empty, one address, two
\* addresses, the same address twice in two cases, lists with '' and 'Unknown'.
BatchInputs ==
    {<<>>, <<AddrA>>, <<AddrB, AddrA>>, <<AddrA, AddrAUpper>>, <<Unknown, AddrB>>,
     <<EmptyStr, Unknown>>, <<AddrAUpper, EmptyStr, AddrB>>}

SeqSet(q) == {q[i] : i \in DOMAIN q}

\* Answers of a name service that honours the query: ResolveAddress asks for
\* the name of at most one domain (first: 1); a domain's name may be null.
SingleOutcomes ==
    Failures \cup
    {Outcome("data", Payload(ds)) :
        ds \in {<<>>} \cup {<<Rec(n, RaMissing)>> : n \in Names \cup {None}}}

\* The domains a name service holds for one address: none, one, one without a
\* name, two.
KeyAnswers(a) ==
    {<<>>, <<Rec(NameOne, RaId(a))>>, <<Rec(None, RaId(a))>>,
     <<Rec(NameOne, RaId(a)), Rec(NameTwo, RaId(a))>>}

\* The domains it returns for a set of addresses, in every order of the addresses.
RECURSIVE BatchAnswers(_)
BatchAnswers(keys) ==
    IF keys = {} THEN {<<>>}
    ELSE UNION {{ans \o rest : ans \in KeyAnswers(k), rest \in BatchAnswers(keys \ {k})} :
                k \in keys}

\* ResolveAddresses returns domains whose resolvedAddress is one of those asked.
BatchOutcomes(to_query) ==
    Failures \cup
    {Outcome("data", Payload(ds)) : ds \in BatchAnswers(SeqSet(to_query))}

\* Answers of an arbitrary stub: records with a missing or null name or
\* resolvedAddress, addresses nobody asked for, a null payload, no payload.
StubAnswers ==
    {<<Rec(NameOne, RaNull)>>,
     <<Rec(NameOne, RaId(None))>>,
     <<Rec(NameOne, RaMissing)>>,
     <<Rec(Missing, RaId(AddrA))>>,
     <<Rec(EmptyStr, RaId(AddrA))>>,
     <<Rec(NameOne, RaId(AddrA)), Rec(NameTwo, RaNull)>>,
     <<Rec(NameOne, RaNull), Rec(NameTwo, RaId(AddrA))>>,
     <<Rec(NameTwo, RaId(AddrAUpper)), Rec(NameOne, RaId(AddrB))>>,
     <<Rec(None, RaId(AddrB))>>}

StubOutcomes ==
    Failures \cup {Outcome("nodata", EmptyDict), Outcome("data", NullPayload),
                   Outcome("data", EmptyDict)} \cup
    {Outcome("data", Payload(ds)) : ds \in StubAnswers \cup BatchAnswers({AddrB})}

\* All sequences of distinct elements of S, of length at most n.
RECURSIVE Arrangements(_, _)
Arrangements(S, n) ==
    IF n = 0 THEN {<<>>}
    ELSE LET shorter == Arrangements(S, n - 1)
         IN  shorter \cup
             UNION {{Append(q, x) : x \in S \ SeqSet(q)} :
                    q \in {r \in shorter : Len(r) = n - 1}}

AddrC == <<"0", "x", "c">>
AddrD == <<"0", "x", "d">>

\* The names given to resolve_name and search_by_ens.
NameInputs == {<<"F", "o">>, <<"f", "o", ".", "e", "t", "h">>}

\* Answers to the exact-match query: it asks for the resolvedAddress of at most
\* one domain, and a domain may have none.
ExactOutcomes ==
    {Outcome("raise", EmptyDict),
     Outcome("data", Payload(<<>>)),
     Outcome("data", Payload(<<Rec(Missing, RaNull)>>)),
     Outcome("data", Payload(<<Rec(Missing, RaId(AddrA))>>))}

\* Domains whose name contains the search term: the term followed by '-' or by
\* '.', the term followed by a letter, the term after a letter; with or
\* without a resolved address.
Candidates(term) ==
    {Rec(term \o <<"-", "i">>, RaId(AddrA)),
     Rec(term \o <<".", "X">>, RaId(AddrB)),
     Rec(term \o <<"b">>, RaId(AddrC)),
     Rec(<<"x">> \o term, RaId(AddrD)),
     Rec(<<"x">> \o term, RaNull),
     Rec(term \o <<"-", "i">>, RaNull)}

\* Answers to the partial-match query, in every order.
PartialOutcomes(term) ==
    {Outcome("errors", EmptyDict)} \cup
    {Outcome("data", Payload(ds)) :
        ds \in Arrangements(Candidates(term), MaxResults)}

\* Documents found at the first start: no file, files of an earlier run, legacy
\* files (bare names) of an earlier version.
InitDisks ==
    {NoFile,
     JsonFile(<<Item(AddrA, Entry(NameOne, -1))>>),
     JsonFile(<<Item(AddrA, Bare(NameOne)), Item(AddrB, Bare(None))>>),
     JsonFile(<<Item(AddrB, Entry(None, 0)), Item(AddrA, Bare(NameTwo))>>)}

----------------------------------------------------------------------------
(* History kept for the properties. *)

\* Keys whose timestamped entry in the document is stale at time t.
StaleKeys(d, t, ttl) ==
    {d.doc[i].k : i \in {j \in DOMAIN d.doc :
                            /\ d.doc[j].v.tag = "entry"
                            /\ t - d.doc[j].v.timestamp >= ttl}}

\* The keys a load at time t reads as bare values: the time of the first such
\* load and of the latest.
BareRead(d, t, at) ==
    [k \in Keys |->
        IF \E i \in DOMAIN d.doc : d.doc[i].k = k /\ d.doc[i].v.tag = "bare"
        THEN <<IF at[k][1] < 0 THEN t ELSE at[k][1], t>>
        ELSE at[k]]

NoCall ==
    [ret |-> None, calls |-> <<>>, saves |-> 0, raised |-> FALSE,
     results |-> <<>>, op |-> "init", time |-> 0, arg |-> EmptyStr, args |-> <<>>,
     fsOk |-> FALSE, mutated |-> FALSE, again |-> FALSE, hit |-> FALSE,
     stale |-> FALSE, negOk |-> FALSE, answers |-> <<>>]

----------------------------------------------------------------------------
(* The state machine. *)

\* The threads that call into one instance.
Threads == {1, 2}

\* A thread that is in no call.
Idle ==
    [ret |-> None, raised |-> FALSE, to_query |-> <<>>, results |-> <<>>,
     op |-> "none", arg |-> EmptyStr, args |-> <<>>, pc |-> "idle",
     pending |-> <<>>, size |-> 0]

\* One instance, used by one thread.
Alone ==
    /\ threads = [t \in Threads |-> Idle]
    /\ peer = <<>>
    /\ savedBy = 0

\* __init__ of the first process.
Init ==
    /\ now = 0
    /\ cache_ttl = TTL
    /\ disk \in InitDisks
    /\ cache = LoadCache(disk, now, cache_ttl)
    /\ last = NoCall
    /\ seen = [k \in Keys |-> Unset]
    /\ found = [k \in Keys |-> Unset]
    /\ negAt = [k \in Keys |-> -1]
    /\ dropped = StaleKeys(disk, now, cache_ttl)
    /\ legacyAt = BareRead(disk, now, [k \in Keys |-> <<-1, -1>>])
    /\ Alone

\* Time passes.
Tick ==
    /\ now < MaxTime
    /\ now' = now + 1
    /\ UNCHANGED <<cache_ttl, disk, cache, last, seen, found, negAt, dropped, legacyAt>>
    /\ UNCHANGED aside

\* The process ends and a new one starts: __init__ loads the file.
Construct ==
    /\ cache' = LoadCache(disk, now, cache_ttl)
    /\ last' = [NoCall EXCEPT !.time = now]
    /\ seen' = [k \in Keys |-> Unset]
    /\ found' = [k \in Keys |-> Unset]
    /\ dropped' = StaleKeys(disk, now, cache_ttl)
    /\ legacyAt' = BareRead(disk, now, legacyAt)
    /\ UNCHANGED <<now, cache_ttl, disk, negAt>>
    /\ UNCHANGED aside

\* resolve_address has already returned for this address, in some letter case.
SeenBefore(address) ==
    /\ Lower(address) \in Keys
    /\ seen[Lower(address)] # Unset

\* The name service had no match for the key less than cache_ttl ago.
NegativeInForce(key) ==
    /\ negAt[key] >= 0
    /\ now - negAt[key] < cache_ttl

\* What the name service said about one address: the name of the first domain
\* it returned, or None when it returned no domain, no name, or failed.
ToldName(outcome) ==
    IF /\ outcome.kind = "data"
       /\ outcome.data.tag = "dict"
       /\ outcome.data.hasDomains
       /\ outcome.data.domains # <<>>
       /\ Truthy(outcome.data.domains[1].name)
    THEN outcome.data.domains[1].name
    ELSE None

\* A call of resolve_address with the transport answering `outcome`.
ResolveAddressWith(address, outcome, saveOk) ==
    \E e \in {resolve_address(cache, disk, address, outcome, saveOk, now)} :
    LET key == Lower(address)
        valid == key \in Keys
        hit == valid /\ e.calls = <<>>
        noMatch == outcome.kind = "data" /\ ~GetRaises(outcome.data)
                   /\ GetDomains(outcome.data) = <<>>
    IN  /\ cache' = e.cache
        /\ disk' = e.disk
        /\ last' = [NoCall EXCEPT
                       !.op = "resolve_address", !.time = now, !.arg = address,
                       !.ret = e.ret, !.calls = e.calls, !.saves = e.saves,
                       !.fsOk = saveOk, !.raised = e.raised,
                       !.mutated = (e.cache # cache),
                       !.again = SeenBefore(address),
                       !.hit = hit,
                       !.stale = valid /\ key \in dropped,
                       !.negOk = valid /\ NegativeInForce(key),
                       !.answers = IF e.calls # <<>>
                                   THEN <<ToldName(outcome)>> ELSE <<>>]
        /\ seen' = IF valid /\ seen[key] = Unset
                   THEN [seen EXCEPT ![key] = e.ret] ELSE seen
        /\ negAt' = IF valid /\ ~hit
                    THEN [negAt EXCEPT ![key] =
                             IF noMatch THEN now ELSE -1]
                    ELSE negAt
        /\ dropped' = dropped \ DictKeys(e.cache)
        /\ savedBy' = IF e.saves > 0 /\ saveOk THEN 1 ELSE savedBy
        /\ UNCHANGED <<now, cache_ttl, found, legacyAt, threads, peer>>

\* The addresses for which the name service returned a domain with a name.
ToldAddresses(outcome) ==
    IF outcome.kind = "data" /\ outcome.data.tag = "dict" /\ outcome.data.hasDomains
    THEN LET domains == outcome.data.domains
         IN  {Lower(domains[i].ra.id) :
                 i \in {j \in DOMAIN domains :
                           /\ Truthy(domains[j].name)
                           /\ domains[j].ra.tag = "dict"
                           /\ Truthy(domains[j].ra.id)}}
    ELSE {}

\* A call of resolve_addresses_batch with the transport answering `outcome`.
BatchWith(addresses, outcome, saveOk) ==
    \E e \in {resolve_addresses_batch(cache, disk, addresses, outcome, saveOk, now)} :
    LET uncached == {Lower(a) : a \in SeqSet(addresses) \ {EmptyStr, Unknown}}
                    \ DictKeys(cache)
        told == ToldAddresses(outcome)
    IN  /\ cache' = e.cache
        /\ disk' = e.disk
        /\ last' = [NoCall EXCEPT
                       !.op = "resolve_addresses_batch", !.time = now,
                       !.args = addresses, !.results = e.ret, !.calls = e.calls,
                       !.saves = e.saves, !.fsOk = saveOk, !.raised = e.raised,
                       !.mutated = (e.cache # cache),
                       !.answers = IF e.calls # <<>> THEN <<told>> ELSE <<>>]
        /\ found' = [k \in Keys |->
                        IF DictHas(e.ret, k)
                        THEN (IF DictGet(e.ret, k) # None THEN DictGet(e.ret, k) ELSE Unset)
                        ELSE found[k]]
        /\ negAt' = [k \in Keys |->
                        IF k \in uncached
                        THEN (IF k \in told THEN -1 ELSE now)
                        ELSE negAt[k]]
        /\ dropped' = dropped \ DictKeys(e.cache)
        /\ savedBy' = IF e.saves > 0 /\ saveOk THEN 1 ELSE savedBy
        /\ UNCHANGED <<now, cache_ttl, seen, legacyAt, threads, peer>>

\* The uncached addresses a batch call would ask the transport for.
ToQuery(addresses) ==
    CheckCache(cache, AddressesLower(addresses), 1,
               [to_query |-> <<>>, results |-> <<>>]).to_query

\* Whether resolve_address(address) reaches the transport.
Queries(address) ==
    resolve_address(cache, disk, address, Outcome("raise", EmptyDict), TRUE, now).calls # <<>>

\* The transport answers only when it is asked.
Unasked == Outcome("raise", EmptyDict)

ResolveAddress ==
    \E address \in Addresses :
        \E outcome \in IF Queries(address) THEN SingleOutcomes ELSE {Unasked} :
            ResolveAddressWith(address, outcome, TRUE)

ResolveAddressesBatch ==
    \E addresses \in BatchInputs :
        \E outcome \in IF ToQuery(addresses) # <<>>
                        THEN BatchOutcomes(ToQuery(addresses)) ELSE {Unasked} :
            BatchWith(addresses, outcome, TRUE)

Next == Tick \/ Construct \/ ResolveAddress \/ ResolveAddressesBatch

Spec == Init /\ [][Next]_vars

\* The same calls against an arbitrary transport stub.
ResolveAddressStub ==
    \E address \in Addresses :
        \E outcome \in IF Queries(address) THEN StubOutcomes ELSE {Unasked} :
            ResolveAddressWith(address, outcome, TRUE)

ResolveAddressesBatchStub ==
    \E addresses \in BatchInputs :
        \E outcome \in IF ToQuery(addresses) # <<>> THEN StubOutcomes ELSE {Unasked} :
            BatchWith(addresses, outcome, TRUE)

NextStub == ResolveAddressStub \/ ResolveAddressesBatchStub

SpecStub == Init /\ [][NextStub]_vars

\* The same calls on a file system that may refuse the save (mkdir or open
\* raises): the file stays as it was.
ResolveAddressFs ==
    \E address \in Addresses :
        \E outcome \in IF Queries(address) THEN SingleOutcomes ELSE {Unasked} :
            \E saveOk \in IF Queries(address) THEN BOOLEAN ELSE {TRUE} :
                ResolveAddressWith(address, outcome, saveOk)

ResolveAddressesBatchFs ==
    \E addresses \in BatchInputs :
        \E outcome \in IF ToQuery(addresses) # <<>>
                        THEN BatchOutcomes(ToQuery(addresses)) ELSE {Unasked} :
            \E saveOk \in IF ToQuery(addresses) # <<>> THEN BOOLEAN ELSE {TRUE} :
                BatchWith(addresses, outcome, saveOk)

NextFs == ResolveAddressFs \/ ResolveAddressesBatchFs

SpecFs == Init /\ [][NextFs]_vars

\* Files that are unreadable or corrupt: refused, not JSON, not a mapping, a
\* mapping with an entry whose timestamp is not a number, after or before a
\* well-formed entry.
CorruptDisks ==
    {Unreadable, NotJson, NotMapping,
     JsonFile(<<Item(AddrA, Entry(NameOne, 0)),
                Item(AddrB, BadTimestamp(NameTwo))>>),
     JsonFile(<<Item(AddrB, BadTimestamp(NameTwo)),
                Item(AddrA, Entry(NameOne, 0))>>)}

\* __init__ on such a file.
InitCorrupt ==
    /\ now = 0
    /\ cache_ttl = TTL
    /\ disk \in CorruptDisks
    /\ cache = LoadCache(disk, now, cache_ttl)
    /\ last = NoCall
    /\ seen = [k \in Keys |-> Unset]
    /\ found = [k \in Keys |-> Unset]
    /\ negAt = [k \in Keys |-> -1]
    /\ dropped = StaleKeys(disk, now, cache_ttl)
    /\ legacyAt = BareRead(disk, now, [k \in Keys |-> <<-1, -1>>])
    /\ Alone

NextCorrupt == Tick \/ Construct \/ ResolveAddress

SpecCorrupt == InitCorrupt /\ [][NextCorrupt]_vars

\* The sentinel in other letter cases.
UnknownLower == Lower(Unknown)
UnknownUpper == <<"U", "N", "K", "N", "O", "W", "N">>

\* Addresses and lists made of '' and of the sentinel, next to a real address.
SentinelAddresses == {EmptyStr, Unknown, UnknownLower, UnknownUpper, AddrA}

SentinelInputs ==
    {<<>>, <<EmptyStr>>, <<EmptyStr, Unknown>>, <<UnknownLower>>,
     <<Unknown, UnknownUpper>>, <<Unknown, AddrA>>}

\* No domain resolves to something that is not an address.
SentinelOutcomes(to_query) ==
    Failures \cup
    {Outcome("data", Payload(ds)) : ds \in BatchAnswers(SeqSet(to_query) \cap Keys)}

ResolveAddressSentinel ==
    \E address \in SentinelAddresses :
        \E outcome \in IF ~Queries(address) THEN {Unasked}
                        ELSE IF Lower(address) \in Keys THEN SingleOutcomes
                        ELSE Failures \cup {Outcome("data", Payload(<<>>))} :
            ResolveAddressWith(address, outcome, TRUE)

ResolveAddressesBatchSentinel ==
    \E addresses \in SentinelInputs :
        \E outcome \in IF ToQuery(addresses) # <<>>
                        THEN SentinelOutcomes(ToQuery(addresses)) ELSE {Unasked} :
            BatchWith(addresses, outcome, TRUE)

NextSentinel == Tick \/ ResolveAddressSentinel \/ ResolveAddressesBatchSentinel

SpecSentinel == Init /\ [][NextSentinel]_vars

\* Documents of an earlier version: every value a bare name or null, or bare
\* values next to a timestamped entry.
LegacyDisks ==
    {JsonFile(<<Item(AddrA, Bare(NameOne)), Item(AddrB, Bare(None))>>),
     JsonFile(<<Item(AddrB, Entry(None, 0)), Item(AddrA, Bare(NameTwo))>>)}

\* Values of cache_ttl below, at and above the grace given to legacy entries.
LegacyTTLs == {1, TTL, Grace, Grace + 1}

\* __init__ on a legacy document, with cache_ttl as configured.
InitLegacy ==
    /\ now = 0
    /\ cache_ttl \in LegacyTTLs
    /\ disk \in LegacyDisks
    /\ cache = LoadCache(disk, now, cache_ttl)
    /\ last = NoCall
    /\ seen = [k \in Keys |-> Unset]
    /\ found = [k \in Keys |-> Unset]
    /\ negAt = [k \in Keys |-> -1]
    /\ dropped = StaleKeys(disk, now, cache_ttl)
    /\ legacyAt = BareRead(disk, now, [k \in Keys |-> <<-1, -1>>])
    /\ Alone

NextLegacy == Tick \/ Construct \/ ResolveAddress \/ ResolveAddressesBatch

SpecLegacy == InitLegacy /\ [][NextLegacy]_vars

\* Legacy documents over hours: the clock moves by half the grace; the legacy
\* name is one the name service does not return.
NameOld == <<"o", "l", "d">>

GraceDisks ==
    {JsonFile(<<Item(AddrA, Bare(NameOld))>>),
     JsonFile(<<Item(AddrB, Entry(NameOne, 0)), Item(AddrA, Bare(NameOld))>>)}

InitGrace ==
    /\ now = 0
    /\ cache_ttl \in LegacyTTLs
    /\ disk \in GraceDisks
    /\ cache = LoadCache(disk, now, cache_ttl)
    /\ last = NoCall
    /\ seen = [k \in Keys |-> Unset]
    /\ found = [k \in Keys |-> Unset]
    /\ negAt = [k \in Keys |-> -1]
    /\ dropped = StaleKeys(disk, now, cache_ttl)
    /\ legacyAt = BareRead(disk, now, [k \in Keys |-> <<-1, -1>>])
    /\ Alone

TickHalfGrace ==
    /\ now < MaxHalfHours * (Grace \div 2)
    /\ now' = now + Grace \div 2
    /\ UNCHANGED <<cache_ttl, disk, cache, last, seen, found, negAt, dropped, legacyAt>>
    /\ UNCHANGED aside

NextGrace == TickHalfGrace \/ Construct \/ ResolveAddress

SpecGrace == InitGrace /\ [][NextGrace]_vars

----------------------------------------------------------------------------
(* Two threads calling resolve_address and resolve_addresses_batch on one    *)
(* instance. The class has no lock: a thread can be suspended between any   *)
(* two statements, and each step below is one access to self._cache, to the *)
(* transport or to the file.                                                *)

\* The file after open(..., 'w') and before the document is written, and a
\* file left with part of a document or with two documents written over each
\* other: json.load raises on both.
Truncated == [kind |-> "truncated", doc |-> <<>>]
Garbled == [kind |-> "garbled", doc |-> <<>>]

ThreadAddresses == {AddrA, AddrAUpper, AddrB, Unknown}

ThreadBatches == {<<AddrB, AddrA>>, <<Unknown>>}

\* Line 92 and lines 95-102, or lines 144-164: the sentinel test and the
\* cache check.
ThreadCall ==
    \E t \in Threads :
        /\ threads[t].pc = "idle"
        /\ \/ \E address \in ThreadAddresses :
                 threads' = [threads EXCEPT ![t] =
                     [Idle EXCEPT !.op = "resolve_address", !.arg = address,
                                  !.pc = "check"]]
           \/ \E addresses \in ThreadBatches :
                 threads' = [threads EXCEPT ![t] =
                     [Idle EXCEPT !.op = "resolve_addresses_batch",
                                  !.args = addresses, !.pc = "check"]]
        /\ UNCHANGED <<now, cache_ttl, disk, cache, last, seen, found, negAt,
                       dropped, legacyAt, peer, savedBy>>

ThreadCheck ==
    \E t \in Threads :
        LET th == threads[t]
            key == CacheKey(th.arg)
            checked == CheckCache(cache, AddressesLower(th.args), 1,
                                  [to_query |-> <<>>, results |-> <<>>])
        IN  /\ th.pc = "check"
            /\ threads' = [threads EXCEPT ![t] =
                   IF th.op = "resolve_address"
                   THEN IF th.arg = EmptyStr \/ th.arg = Unknown
                        THEN [th EXCEPT !.pc = "done"]
                        ELSE IF DictHas(cache, key)
                        THEN [th EXCEPT !.pc = "done", !.ret = CachedName(cache, key)]
                        ELSE [th EXCEPT !.pc = "query", !.to_query = <<key>>]
                   ELSE IF checked.to_query = <<>>
                        THEN [th EXCEPT !.pc = "done", !.results = checked.results]
                        ELSE [th EXCEPT !.pc = "query", !.results = checked.results,
                                        !.to_query = checked.to_query]]
            /\ UNCHANGED <<now, cache_ttl, disk, cache, last, seen, found, negAt,
                           dropped, legacyAt, peer, savedBy>>

\* Lines 119-123 or 180-194 up to the first assignment to self._cache: the
\* transport call and what the thread is going to write, in order.
ThreadQuery ==
    \E t \in Threads :
        LET th == threads[t]
        IN  /\ th.pc = "query"
            /\ \E outcome \in IF th.op = "resolve_address" THEN SingleOutcomes
                                ELSE BatchOutcomes(th.to_query) :
                   LET result == Query(outcome)
                       name == SingleName(result)
                       start == [cache |-> <<>>, raised |-> FALSE,
                                 results |-> th.results]
                       looped == BatchDomains(GetDomains(result), 1, start, now)
                       filled == IF looped.raised THEN looped
                                 ELSE BatchNegatives(th.to_query, 1, looped, now)
                   IN  threads' = [threads EXCEPT ![t] =
                           IF th.op = "resolve_address"
                           THEN [th EXCEPT !.pc = "write", !.ret = name,
                                           !.pending = <<Item(th.to_query[1],
                                                              Entry(name, now))>>]
                           ELSE IF GetRaises(result)
                           THEN [th EXCEPT !.pc = "done"]
                           ELSE [th EXCEPT !.pc = IF filled.cache = <<>> THEN "done"
                                                  ELSE "write",
                                           !.raised = looped.raised,
                                           !.results = filled.results,
                                           !.pending = filled.cache]]
            /\ UNCHANGED <<now, cache_ttl, disk, cache, last, seen, found, negAt,
                           dropped, legacyAt, peer, savedBy>>

\* Line 124, 131, 188 or 194: one assignment self._cache[addr] = {...}.
ThreadWrite ==
    \E t \in Threads :
        LET th == threads[t]
            item == Head(th.pending)
        IN  /\ th.pc = "write"
            /\ cache' = DictPut(cache, item.k, Entry(item.v.name, now))
            /\ threads' = [threads EXCEPT ![t] =
                   [th EXCEPT !.pending = Tail(th.pending),
                              !.pc = IF Tail(th.pending) # <<>> THEN "write"
                                     ELSE IF th.raised THEN "done" ELSE "save"]]
            /\ UNCHANGED <<now, cache_ttl, disk, last, seen, found, negAt,
                           dropped, legacyAt, peer, savedBy>>

\* Line 61: open(..., 'w') empties the file.
ThreadOpen ==
    \E t \in Threads :
        /\ threads[t].pc = "save"
        /\ disk' = Truncated
        /\ threads' = [threads EXCEPT ![t] = [threads[t] EXCEPT !.pc = "dump"]]
        /\ UNCHANGED <<now, cache_ttl, cache, last, seen, found, negAt,
                       dropped, legacyAt, peer, savedBy>>

\* Line 62: json.dump starts to iterate over self._cache.
ThreadDumpBegin ==
    \E t \in Threads :
        /\ threads[t].pc = "dump"
        /\ threads' = [threads EXCEPT ![t] =
               [threads[t] EXCEPT !.pc = "dumping", !.size = Len(cache)]]
        /\ UNCHANGED <<now, cache_ttl, disk, cache, last, seen, found, negAt,
                       dropped, legacyAt, peer, savedBy>>

\* Lines 62-64: json.dump ends and the file is closed. The iteration raises
\* when the dict changed size, which leaves part of a document; when the
\* other thread wrote to the file in the meantime or has it open, the two
\* documents may lie over each other.
ThreadDumpEnd ==
    \E t \in Threads :
        /\ threads[t].pc = "dumping"
        /\ disk' \in IF Len(cache) # threads[t].size THEN {Garbled}
                      ELSE IF \/ disk # Truncated
                              \/ \E u \in Threads \ {t} :
                                     threads[u].pc \in {"dump", "dumping"}
                      THEN {JsonFile(cache), Garbled}
                      ELSE {JsonFile(cache)}
        /\ threads' = [threads EXCEPT ![t] = [threads[t] EXCEPT !.pc = "done"]]
        /\ savedBy' = 1
        /\ UNCHANGED <<now, cache_ttl, cache, last, seen, found, negAt,
                       dropped, legacyAt, peer>>

\* The call returns th.ret or th.results to its caller.
ThreadReturn ==
    \E t \in Threads :
        /\ threads[t].pc = "done"
        /\ threads' = [threads EXCEPT ![t] = Idle]
        /\ UNCHANGED <<now, cache_ttl, disk, cache, last, seen, found, negAt,
                       dropped, legacyAt, peer, savedBy>>

NextThreads ==
    \/ ThreadCall
    \/ ThreadCheck
    \/ ThreadQuery
    \/ ThreadWrite
    \/ ThreadOpen
    \/ ThreadDumpBegin
    \/ ThreadDumpEnd
    \/ ThreadReturn

SpecThreads == Init /\ [][NextThreads]_vars

----------------------------------------------------------------------------
(* Two instances, each in its own process, on the same cache file. The      *)
(* first keeps its self._cache in cache, the second in peer. Calls of the   *)
(* two interleave as wholes; the history of single calls is not kept.       *)

\* Both processes start on the same document.
InitPeers ==
    /\ now = 0
    /\ cache_ttl = TTL
    /\ disk \in InitDisks
    /\ cache = LoadCache(disk, now, cache_ttl)
    /\ last = NoCall
    /\ seen = [k \in Keys |-> Unset]
    /\ found = [k \in Keys |-> Unset]
    /\ negAt = [k \in Keys |-> -1]
    /\ dropped = StaleKeys(disk, now, cache_ttl)
    /\ legacyAt = BareRead(disk, now, [k \in Keys |-> <<-1, -1>>])
    /\ threads = [t \in Threads |-> Idle]
    /\ peer = LoadCache(disk, now, cache_ttl)
    /\ savedBy = 0

\* The process of an instance ends and a new one starts, while the instance
\* that saved last lives on.
ConstructFirst ==
    /\ savedBy # 1
    /\ cache' = LoadCache(disk, now, cache_ttl)
    /\ UNCHANGED <<now, cache_ttl, disk, last, seen, found, negAt, dropped,
                   legacyAt, threads, peer, savedBy>>

ConstructPeer ==
    /\ savedBy # 2
    /\ peer' = LoadCache(disk, now, cache_ttl)
    /\ UNCHANGED <<now, cache_ttl, disk, cache, last, seen, found, negAt, dropped,
                   legacyAt, threads, savedBy>>

\* A call on the first instance, with effect e.
FirstCall(e) ==
    /\ cache' = e.cache
    /\ disk' = e.disk
    /\ savedBy' = IF e.saves > 0 THEN 1 ELSE savedBy
    /\ UNCHANGED <<now, cache_ttl, last, seen, found, negAt, dropped,
                   legacyAt, threads, peer>>

\* A call on the second instance, with effect e.
PeerCall(e) ==
    /\ peer' = e.cache
    /\ disk' = e.disk
    /\ savedBy' = IF e.saves > 0 THEN 2 ELSE savedBy
    /\ UNCHANGED <<now, cache_ttl, cache, last, seen, found, negAt, dropped,
                   legacyAt, threads>>

\* The outcomes of the transport for resolve_address on the cache c.
AskedSingle(c, address) ==
    IF resolve_address(c, disk, address, Unasked, TRUE, now).calls # <<>>
    THEN SingleOutcomes ELSE {Unasked}

\* The outcomes of the transport for resolve_addresses_batch on the cache c.
AskedBatch(c, addresses) ==
    LET to_query == CheckCache(c, AddressesLower(addresses), 1,
                               [to_query |-> <<>>, results |-> <<>>]).to_query
    IN  IF to_query # <<>> THEN BatchOutcomes(to_query) ELSE {Unasked}

FirstResolveAddress ==
    \E address \in Addresses :
        \E outcome \in AskedSingle(cache, address) :
            FirstCall(resolve_address(cache, disk, address, outcome, TRUE, now))

FirstResolveAddressesBatch ==
    \E addresses \in BatchInputs :
        \E outcome \in AskedBatch(cache, addresses) :
            FirstCall(resolve_addresses_batch(cache, disk, addresses, outcome, TRUE, now))

PeerResolveAddress ==
    \E address \in Addresses :
        \E outcome \in AskedSingle(peer, address) :
            PeerCall(resolve_address(peer, disk, address, outcome, TRUE, now))

PeerResolveAddressesBatch ==
    \E addresses \in BatchInputs :
        \E outcome \in AskedBatch(peer, addresses) :
            PeerCall(resolve_addresses_batch(peer, disk, addresses, outcome, TRUE, now))

NextPeers ==
    \/ Tick
    \/ ConstructFirst
    \/ ConstructPeer
    \/ FirstResolveAddress
    \/ FirstResolveAddressesBatch
    \/ PeerResolveAddress
    \/ PeerResolveAddressesBatch

SpecPeers == InitPeers /\ [][NextPeers]_vars

----------------------------------------------------------------------------
(* The name service as a registry of domains, from which the answers to the *)
(* single and to the batch query are computed as the query texts ask.       *)

\* first: 100 of the batch query.
BatchLimit == 100

\* A domain of the registry: its name, the address it resolves to, when it
\* was created.
Domain(name, id, createdAt) == [name |-> name, id |-> id, createdAt |-> createdAt]

\* The domains that resolve to one of the addresses, in the order in which
\* the registry lists them when the query gives no orderBy.
Matching(registry, addrs) == SelectSeq(registry, LAMBDA d : d.id \in addrs)

\* orderBy: createdAt, orderDirection: desc, first: 1.
Newest(domains) ==
    CHOOSE d \in SeqSet(domains) : \A e \in SeqSet(domains) : e.createdAt <= d.createdAt

\* The answer to ResolveAddress($address).
ServeSingle(registry, address) ==
    LET m == Matching(registry, {address})
    IN  Payload(IF m = <<>> THEN <<>> ELSE <<Rec(Newest(m).name, RaMissing)>>)

\* The answer to ResolveAddresses($addresses): the first BatchLimit matches.
ServeBatch(registry, addresses) ==
    LET m == Matching(registry, SeqSet(addresses))
        n == IF Len(m) < BatchLimit THEN Len(m) ELSE BatchLimit
    IN  Payload([i \in 1..n |-> Rec(m[i].name, RaId(m[i].id))])

\* n domains of AddrB, created one after the other.
Filler(n) == [i \in 1..n |-> Domain(NameTwo, AddrB, i)]

\* Registries: empty; one domain; two domains of AddrA listed oldest first
\* and newest first; domains of both addresses; a domain of AddrA listed
\* after BatchLimit - 1 and after BatchLimit domains of AddrB.
Registries ==
    {<<>>,
     <<Domain(NameOne, AddrA, 1)>>,
     <<Domain(NameOne, AddrA, 1), Domain(NameTwo, AddrA, 2)>>,
     <<Domain(NameTwo, AddrA, 2), Domain(NameOne, AddrA, 1)>>,
     <<Domain(NameOne, AddrB, 1), Domain(NameTwo, AddrA, 2)>>,
     <<Domain(NameTwo, AddrB, 2), Domain(NameOne, AddrB, 1), Domain(NameOne, AddrA, 3)>>,
     Filler(BatchLimit - 1) \o <<Domain(NameOne, AddrA, 0)>>,
     Filler(BatchLimit) \o <<Domain(NameOne, AddrA, 0)>>}

\* resolve_address(address) on one fresh instance and
\* resolve_addresses_batch(addresses) on another, against the same registry.
\* cache is the cache of the first, peer that of the second.
LookupBoth ==
    \E registry \in Registries, addresses \in BatchInputs :
        \E address \in SeqSet(addresses) :
            LET single == resolve_address(<<>>, NoFile, address,
                              Outcome("data", ServeSingle(registry, Lower(address))),
                              TRUE, now)
                to_query == CheckCache(<<>>, AddressesLower(addresses), 1,
                                [to_query |-> <<>>, results |-> <<>>]).to_query
                batch == resolve_addresses_batch(<<>>, NoFile, addresses,
                              Outcome("data", ServeBatch(registry, to_query)),
                              TRUE, now)
            IN  /\ cache' = single.cache
                /\ peer' = batch.cache
                /\ disk' = batch.disk
                /\ last' = [NoCall EXCEPT
                               !.op = "lookup_both", !.time = now,
                               !.arg = address, !.args = addresses,
                               !.ret = single.ret, !.results = batch.ret,
                               !.calls = single.calls \o batch.calls,
                               !.answers = <<Len(registry)>>]
                /\ UNCHANGED <<now, cache_ttl, seen, found, negAt, dropped,
                               legacyAt, threads, savedBy>>

InitRegistry == Init /\ disk = NoFile

NextRegistry == Tick \/ LookupBoth

SpecRegistry == InitRegistry /\ [][NextRegistry]_vars

----------------------------------------------------------------------------
(* Name resolution: it neither reads nor writes the cache. *)

\* The domains each transport call of a name operation got back.
Answers(outcomes, n) ==
    [i \in 1..n |-> IF GetRaises(Query(outcomes[i])) THEN <<>>
                    ELSE GetDomains(Query(outcomes[i]))]

\* Whether resolve_name goes on to the suffixed and to the partial query.
AsksSuffixed(name, o1) ==
    LET e == resolve_name(name, o1, Unasked, Unasked)
    IN  ~e.raised /\ Len(e.calls) >= 2

AsksPartial(name, o1, o2) ==
    LET e == resolve_name(name, o1, o2, Unasked)
    IN  ~e.raised /\ e.calls[Len(e.calls)].q = "ResolveNamePartial"

\* A variant that memoizes what a name operation was asked.
NameOpCacheMemoized(c, name, ret) == DictPut(c, Lower(name), Entry(name, 0))

\* self._cache after search_by_ens or resolve_name: neither has a statement
\* that reads or assigns it, nor one that opens the file.
NameOpCache(c, name, ret) == c

ResolveNameWith(name, o1, o2, o3) ==
    \E e \in {resolve_name(name, o1, o2, o3)} :
        /\ last' = [NoCall EXCEPT
                       !.op = "resolve_name", !.time = now, !.arg = name,
                       !.ret = e.ret, !.calls = e.calls, !.raised = e.raised,
                       !.answers = Answers(IF EndsWith(Lower(name), DotEth)
                                           THEN <<o1, o3>> ELSE <<o1, o2, o3>>,
                                           Len(e.calls))]
        /\ cache' = NameOpCache(cache, name, e.ret)
        /\ UNCHANGED <<now, cache_ttl, disk, seen, found, negAt, dropped, legacyAt>>
        /\ UNCHANGED aside

ResolveName ==
    \E name \in NameInputs, o1 \in ExactOutcomes :
        \E o2 \in IF AsksSuffixed(name, o1) THEN ExactOutcomes ELSE {Unasked} :
            \E o3 \in IF AsksPartial(name, o1, o2)
                      THEN PartialOutcomes(Lower(name)) ELSE {Unasked} :
                ResolveNameWith(name, o1, o2, o3)

SearchByEnsWith(name, outcome) ==
    \E e \in {search_by_ens(name, outcome)} :
        /\ last' = [NoCall EXCEPT
                       !.op = "search_by_ens", !.time = now, !.arg = name,
                       !.results = e.ret, !.calls = e.calls,
                       !.raised = e.raised,
                       !.answers = Answers(<<outcome>>, 1)]
        /\ cache' = NameOpCache(cache, name, e.ret)
        /\ UNCHANGED <<now, cache_ttl, disk, seen, found, negAt, dropped, legacyAt>>
        /\ UNCHANGED aside

SearchByEns ==
    \E name \in NameInputs :
        \E outcome \in PartialOutcomes(Lower(name)) :
            SearchByEnsWith(name, outcome)

InitName == Init /\ disk = NoFile

NextName == ResolveName \/ SearchByEns

SpecName == InitName /\ [][NextName]_vars

\* The name operations between address lookups, on an instance whose cache
\* was loaded from a document; the partial-match query finds at most two
\* domains.
StoreOutcomes(term) ==
    {Outcome("errors", EmptyDict)} \cup
    {Outcome("data", Payload(ds)) :
        ds \in Arrangements({Rec(term \o <<"b">>, RaId(AddrC)),
                             Rec(<<"x">> \o term, RaId(AddrD))}, MaxResults)}

ResolveNameStore ==
    \E name \in NameInputs, o1 \in ExactOutcomes :
        \E o2 \in IF AsksSuffixed(name, o1) THEN ExactOutcomes ELSE {Unasked} :
            \E o3 \in IF AsksPartial(name, o1, o2)
                      THEN StoreOutcomes(Lower(name)) ELSE {Unasked} :
                ResolveNameWith(name, o1, o2, o3)

SearchByEnsStore ==
    \E name \in NameInputs :
        \E outcome \in StoreOutcomes(Lower(name)) :
            SearchByEnsWith(name, outcome)

NextNameStore == ResolveNameStore \/ SearchByEnsStore \/ ResolveAddress

SpecNameStore == Init /\ [][NextNameStore]_vars

----------------------------------------------------------------------------
(* Properties. *)

ValidInputs(addresses) == SeqSet(addresses) \ {EmptyStr, Unknown}

\* The resolve_address call just made, on an address in some letter case.
Resolved == last.op = "resolve_address" /\ Lower(last.arg) \in Keys

\* C1. Cache hit avoids network: once resolve_address has returned for an
\* address on this instance, every later resolve_address call on the instance
\* with that address, in any letter case, makes no transport call and returns
\* what the first call returned.
C1_CacheHitAvoidsNetwork ==
    (Resolved /\ last.again) =>
        (last.calls = <<>> /\ last.ret = seen[Lower(last.arg)])

C1_Witness ==
    /\ Resolved /\ last.again
    /\ last.arg = AddrAUpper
    /\ last.ret = NameOne

\* C2. Batch completeness: whatever the transport answers, the keys of the
\* mapping resolve_addresses_batch returns are exactly the lowercased inputs
\* without '' and 'Unknown': none is missing, none is extra.
C2_BatchCompleteness ==
    last.op = "resolve_addresses_batch" =>
        DictKeys(last.results) = {Lower(a) : a \in ValidInputs(last.args)}

\* C3. Batch/single consistency: if resolve_addresses_batch reported name X
\* for an address, a later resolve_address of that address on the same
\* instance returns X and makes no transport call.
C3_BatchThenSingle ==
    (Resolved /\ found[Lower(last.arg)] # Unset) =>
        (last.ret = found[Lower(last.arg)] /\ last.calls = <<>>)

C3_Witness ==
    /\ Resolved
    /\ found[Lower(last.arg)] = NameTwo
    /\ last.ret = NameTwo

\* C4. Negative caching is sticky within the TTL: if the transport had no
\* match for an address during resolve_address at time t, a resolve_address
\* of it at a time less than cache_ttl after t, on the same instance or on one
\* constructed later from the file, returns None without a transport call.
C4_NegativeSticky ==
    (Resolved /\ last.negOk) => (last.ret = None /\ last.calls = <<>>)

\* The call is the first one for the address on an instance constructed after
\* the lookup that found no match, at a later time.
C4_Witness ==
    /\ Resolved /\ last.negOk /\ ~last.again
    /\ last.time > negAt[Lower(last.arg)]

\* C5 as claimed. Re-resolution after TTL expiry: any resolve_address call
\* made cache_ttl or more after the entry of its address was written attempts
\* the network instead of serving the entry.
C5_AlwaysReresolved ==
    (/\ Resolved
     /\ DictHas(cache, Lower(last.arg))
     /\ last.time - DictGet(cache, Lower(last.arg)).timestamp >= cache_ttl)
    => last.calls # <<>>

\* C5 as amended. An entry written at time t is not loaded by an instance
\* constructed cache_ttl or more after t, and the first resolve_address of
\* its address on that instance makes one transport call.  (An instance that
\* holds the entry in memory keeps serving it.)
C5_ReresolvedAfterRestart ==
    (Resolved /\ last.stale) => Len(last.calls) = 1

C5_Witness ==
    /\ Resolved /\ last.stale
    /\ Len(last.calls) = 1

\* The exact-match answer of the resolve_name call just made holds a domain
\* with a resolved address.
ExactMatched ==
    /\ last.op = "resolve_name"
    /\ last.answers # <<>>
    /\ last.answers[1] # <<>>
    /\ last.answers[1][1].ra.tag = "dict"
    /\ Truthy(last.answers[1][1].ra.id)

\* C6. Fallback ordering: when the exact-match query for the lowercased name
\* returns a domain with a resolved address, resolve_name returns that address
\* and makes this one transport call only.
C6_ExactFirst ==
    ExactMatched =>
        /\ last.ret = last.answers[1][1].ra.id
        /\ last.calls = <<Call("ResolveName", Lower(last.arg))>>

C6_Witness ==
    /\ ExactMatched
    /\ last.arg = <<"F", "o">>
    /\ last.ret = AddrA

\* The candidates of the partial search of the resolve_name call just made.
SearchResults ==
    IF /\ last.op = "resolve_name"
       /\ last.calls # <<>>
       /\ last.calls[Len(last.calls)].q = "ResolveNamePartial"
    THEN last.answers[Len(last.calls)]
    ELSE <<>>

\* Candidates with a resolved address whose name starts with the term
\* followed by '-' or '.'.
SeparatorCandidates ==
    {i \in DOMAIN SearchResults :
        /\ SearchResults[i].ra.tag = "dict"
        /\ Truthy(SearchResults[i].ra.id)
        /\ \/ StartsWith(Lower(SearchResults[i].name), Lower(last.arg) \o <<"-">>)
           \/ StartsWith(Lower(SearchResults[i].name), Lower(last.arg) \o <<".">>)}

\* C7. Separator preference: at the partial-search stage, in every order of
\* the candidates, if some candidate with a resolved address has a name that
\* starts with the term followed by '-' or '.', the address returned is that
\* of such a candidate.
C7_SeparatorPreference ==
    SeparatorCandidates # {} =>
        \E i \in SeparatorCandidates : last.ret = SearchResults[i].ra.id

\* C8. No operation raises: whatever the transport answers, the call returns
\* a value and no exception escapes to the caller.
C8_NeverRaises == ~last.raised

C10_StaleDroppedOnLoad ==
    /\ last.op = "init" =>
          \A i \in DOMAIN disk.doc :
              disk.doc[i].v.tag = "entry" =>
                  ((/\ DictHas(cache, disk.doc[i].k)
                    /\ DictGet(cache, disk.doc[i].k) = disk.doc[i].v)
                   <=> last.time - disk.doc[i].v.timestamp < cache_ttl)
    /\ (Resolved /\ last.stale) => (~last.hit /\ last.calls # <<>>)

\* An instance constructed exactly cache_ttl after an entry was written has
\* dropped it, and kept a younger one.
C10_Witness ==
    /\ last.op = "init"
    /\ \E i \in DOMAIN disk.doc :
          /\ disk.doc[i].v.tag = "entry"
          /\ last.time - disk.doc[i].v.timestamp = cache_ttl
          /\ ~DictHas(cache, disk.doc[i].k)
    /\ \E i \in DOMAIN disk.doc :
          /\ disk.doc[i].v.tag = "entry"
          /\ last.time - disk.doc[i].v.timestamp = cache_ttl - 1
          /\ DictHas(cache, disk.doc[i].k)

\* The step is a call of operation op on the instance.
CallStep(op) == last' # last /\ last'.op = op

\* C11. No expiry inside a process: an entry that is in the in-memory cache
\* stays there until the instance ends, and resolve_address and
\* resolve_addresses_batch serve it, unchanged and without asking the
\* transport about its address, whatever its age.
C11_NoExpiryInProcess ==
    [][/\ (CallStep("resolve_address") /\ DictHas(cache, Lower(last'.arg))) =>
              /\ last'.calls = <<>>
              /\ last'.ret = DictGet(cache, Lower(last'.arg)).name
              /\ cache' = cache
       /\ CallStep("resolve_addresses_batch") =>
              \A a \in ValidInputs(last'.args) :
                  DictHas(cache, Lower(a)) =>
                      /\ \A i \in DOMAIN last'.calls :
                             Lower(a) \notin SeqSet(last'.calls[i].v)
                      /\ DictHas(last'.results, Lower(a))
                      /\ DictGet(last'.results, Lower(a)) = DictGet(cache, Lower(a)).name
                      /\ DictGet(cache', Lower(a)) = DictGet(cache, Lower(a))
       /\ last'.op # "init" => \A k \in DictKeys(cache) : DictHas(cache', k)
      ]_vars

\* A name written by this instance is served when it is cache_ttl old or older.
C11_Witness ==
    /\ Resolved
    /\ last.calls = <<>>
    /\ last.ret \in Names
    /\ DictHas(cache, Lower(last.arg))
    /\ DictGet(cache, Lower(last.arg)).timestamp >= 0
    /\ last.time - DictGet(cache, Lower(last.arg)).timestamp >= cache_ttl

\* The position of key k in a document, or 0.
DocIndex(doc, k) ==
    IF \E i \in DOMAIN doc : doc[i].k = k
    THEN CHOOSE i \in DOMAIN doc : doc[i].k = k
    ELSE 0

\* C12. Legacy cache migration: while the document maps an address to a bare
\* string or null, every instance loaded from it holds for that address an
\* entry {name, timestamp} with the string (or null) as name, and
\* resolve_address and resolve_addresses_batch answer the address with that
\* name (None for null) and no transport call, whatever cache_ttl is; what a
\* save writes is in the {name, timestamp} form only.
C12_LegacyMigration ==
    /\ \A i \in DOMAIN disk.doc :
           disk.doc[i].v.tag = "bare" =>
               LET k == disk.doc[i].k
                   name == disk.doc[i].v.name
               IN  /\ DictHas(cache, k)
                   /\ DictGet(cache, k).tag = "entry"
                   /\ DictGet(cache, k).name = name
                   /\ (Resolved /\ Lower(last.arg) = k) =>
                          (last.calls = <<>> /\ last.ret = name)
                   /\ (/\ last.op = "resolve_addresses_batch"
                       /\ k \in {Lower(a) : a \in ValidInputs(last.args)}) =>
                          /\ DictHas(last.results, k)
                          /\ DictGet(last.results, k) = name
                          /\ \A c \in DOMAIN last.calls : k \notin SeqSet(last.calls[c].v)
    /\ last.saves > 0 => \A i \in DOMAIN disk.doc : disk.doc[i].v.tag = "entry"

\* A legacy name is served, to an address given in capitals, after the load,
\* with cache_ttl above the grace.
C12_Witness ==
    /\ Resolved
    /\ last.arg = AddrAUpper
    /\ last.time > 0
    /\ cache_ttl > Grace
    /\ DocIndex(disk.doc, AddrA) > 0
    /\ disk.doc[DocIndex(disk.doc, AddrA)].v.tag = "bare"
    /\ last.ret = disk.doc[DocIndex(disk.doc, AddrA)].v.name
    /\ last.calls = <<>>

\* The step is a resolve_address call on an address that is not cached.
MissStep ==
    /\ CallStep("resolve_address")
    /\ Lower(last'.arg) \in Keys
    /\ ~DictHas(cache, Lower(last'.arg))

\* After a miss the in-memory cache is the one before plus one entry, under
\* the lowercased address, with the name the transport gave (or None) and the
\* current time; the call made one transport call and returns that name.
MissInMemory ==
    /\ Len(last'.calls) = 1
    /\ last'.calls[1].v = Lower(last'.arg)
    /\ last'.ret = last'.answers[1]
    /\ cache' = Append(cache, Item(Lower(last'.arg), Entry(last'.answers[1], now)))

\* C13 as claimed. A cache miss writes exactly one entry: MissInMemory, and
\* the document on disk is the document before plus that one entry, all its
\* other entries unchanged.
C13_MissWritesOneEntry ==
    [][MissStep =>
          /\ MissInMemory
          /\ disk'.kind = "json"
          /\ DictKeys(disk'.doc) = DictKeys(disk.doc) \cup {Lower(last'.arg)}
          /\ DictGet(disk'.doc, Lower(last'.arg)) = Entry(last'.answers[1], now)
          /\ \A k \in DictKeys(disk.doc) \ {Lower(last'.arg)} :
                 DictGet(disk'.doc, k) = DictGet(disk.doc, k)
      ]_vars

\* C13 as amended. A cache miss writes exactly one entry in memory:
\* MissInMemory; the document on disk becomes the in-memory mapping, so what
\* the load had dropped as stale is gone from it and legacy values are in
\* the {name, timestamp} form, and of the entries in memory none changed.
C13_MissWritesOneEntryInMemory ==
    [][MissStep =>
          /\ MissInMemory
          /\ disk'.kind = "json"
          /\ SameMapping(disk'.doc, cache')
          /\ \A k \in DictKeys(cache) :
                 DictGet(disk'.doc, k) = DictGet(cache, k)
      ]_vars

\* A miss that got a name, on an instance that held another entry, with a
\* document that held an entry the instance had dropped.
C13_Witness ==
    /\ Resolved
    /\ Len(last.calls) = 1
    /\ last.ret \in Names
    /\ last.stale
    /\ Len(cache) = 2
    /\ SameMapping(disk.doc, cache)
    /\ DictGet(cache, Lower(last.arg)) = Entry(last.ret, last.time)

\* An input error: the empty address, or the sentinel in some letter case.
InputError(address) == Lower(address) \in {EmptyStr, UnknownLower}

\* C14. Input errors short-circuit: resolve_address of an empty address or of
\* the sentinel "unknown" returns None, makes no transport call, and leaves
\* the cache and the document as they were; resolve_addresses_batch of a list
\* of such inputs only returns an empty mapping and makes no transport call.
C14_InputErrorsShortCircuit ==
    /\ (last.op = "resolve_address" /\ InputError(last.arg)) =>
           /\ last.ret = None
           /\ last.calls = <<>>
           /\ ~last.mutated
           /\ last.saves = 0
    /\ (/\ last.op = "resolve_addresses_batch"
        /\ \A a \in SeqSet(last.args) : InputError(a)) =>
           /\ last.results = <<>>
           /\ last.calls = <<>>

\* The file is unreadable or corrupt.
Corrupt(d) ==
    \/ d.kind \in {"unreadable", "garbage", "list"}
    \/ \E i \in DOMAIN d.doc : d.doc[i].v.tag = "badts"

\* C15. Corrupt cache degrades to empty: an instance constructed on a file
\* that is unreadable or corrupt in any way has an empty in-memory cache; no
\* entry of the corrupt document is retained.
C15_CorruptDegradesToEmpty ==
    (last.op = "init" /\ Corrupt(disk)) => cache = <<>>

\* The call just made had its save refused.
SaveFailed ==
    /\ last.op \in {"resolve_address", "resolve_addresses_batch"}
    /\ last.saves > 0
    /\ ~last.fsOk

\* C16. Save failure does not interrupt resolution: in every state, for every
\* address (list) and transport answer, the call with the save refused
\* returns what the call with the save accepted returns, makes the same
\* transport calls, leaves the same in-memory cache and raises nothing; after
\* a call whose save was refused the cache holds what the call returned, and
\* repeating the call asks the transport nothing.
C16_SaveFailureHarmless ==
    /\ \A address \in Addresses, outcome \in SingleOutcomes :
           LET f == resolve_address(cache, disk, address, outcome, FALSE, now)
               g == resolve_address(cache, disk, address, outcome, TRUE, now)
           IN  /\ f.ret = g.ret
               /\ f.calls = g.calls
               /\ f.cache = g.cache
               /\ ~f.raised
    /\ \A addresses \in BatchInputs :
           \A outcome \in BatchOutcomes(ToQuery(addresses)) :
               LET f == resolve_addresses_batch(cache, disk, addresses, outcome, FALSE, now)
                   g == resolve_addresses_batch(cache, disk, addresses, outcome, TRUE, now)
               IN  /\ f.ret = g.ret
                   /\ f.calls = g.calls
                   /\ f.cache = g.cache
                   /\ ~f.raised
    /\ (SaveFailed /\ last.op = "resolve_address") =>
           /\ ~last.raised
           /\ DictHas(cache, Lower(last.arg))
           /\ DictGet(cache, Lower(last.arg)).name = last.ret
           /\ resolve_address(cache, disk, last.arg, Unasked, TRUE, now).calls = <<>>
    /\ (SaveFailed /\ last.op = "resolve_addresses_batch") =>
           /\ ~last.raised
           /\ \A k \in DictKeys(last.results) :
                  DictHas(cache, k) /\ DictGet(cache, k).name = DictGet(last.results, k)
           /\ resolve_addresses_batch(cache, disk, last.args, Unasked, TRUE, now).calls = <<>>

\* A name that is in memory only, its save having been refused, is served.
C16_Witness ==
    /\ Resolved /\ last.again
    /\ last.calls = <<>>
    /\ last.ret \in Names
    /\ ~DictHas(disk.doc, Lower(last.arg))

\* C17. Batch issues at most one transport call and only for uncached
\* addresses: when every requested address is cached resolve_addresses_batch
\* makes no transport call and no save; otherwise it makes exactly one
\* ResolveAddresses call, whose argument holds every requested address that
\* is not cached and none that is.
C17_BatchOneCallForUncached ==
    [][CallStep("resolve_addresses_batch") =>
          LET requested == {Lower(a) : a \in ValidInputs(last'.args)}
              uncached == {k \in requested : ~DictHas(cache, k)}
          IN  IF uncached = {}
              THEN /\ last'.calls = <<>>
                   /\ last'.saves = 0
                   /\ disk' = disk
              ELSE /\ Len(last'.calls) = 1
                   /\ last'.calls[1].q = "ResolveAddresses"
                   /\ SeqSet(last'.calls[1].v) = uncached
      ]_vars

\* Of two requested addresses one was cached: the call asked for the other.
C17_Witness ==
    /\ last.op = "resolve_addresses_batch"
    /\ last.args = <<AddrB, AddrA>>
    /\ Len(last.calls) = 1
    /\ last.calls[1].v = <<AddrB>>
    /\ DictKeys(last.results) = {AddrA, AddrB}

Yielded(domains) ==
    /\ domains # <<>>
    /\ domains[1].ra.tag = "dict"
    /\ Truthy(domains[1].ra.id)

\* C19. resolve_name stage order: the transport calls of resolve_name are a
\* prefix of exact(name), exact(name + '.eth'), partial(name), without the
\* second when the lowercased name ends with '.eth'; a stage is reached if and
\* only if no earlier stage yielded a resolved address, a failed call counting
\* as no match.
C19_StageOrder ==
    last.op = "resolve_name" =>
        LET name_lower == Lower(last.arg)
            exact == Call("ResolveName", name_lower)
            exactEth == Call("ResolveName", name_lower \o DotEth)
            partial == Call("ResolveNamePartial", name_lower)
            hasSuffix == EndsWith(name_lower, DotEth)
            chain == IF hasSuffix THEN <<exact, partial>>
                     ELSE <<exact, exactEth, partial>>
            n == Len(last.calls)
        IN  /\ n \in 1..Len(chain)
            /\ last.calls = SubSeq(chain, 1, n)
            /\ (exactEth \in SeqSet(last.calls)) <=>
                   (~Yielded(last.answers[1]) /\ ~hasSuffix)
            /\ (partial \in SeqSet(last.calls)) <=>
                   \A i \in 1..(Len(chain) - 1) : ~Yielded(last.answers[i])
            /\ \A i \in 1..(n - 1) : ~Yielded(last.answers[i])

\* All three stages ran: the first call failed or found nothing, the second
\* found a domain without a resolved address, the search gave the address.
C19_Witness ==
    /\ last.op = "resolve_name"
    /\ Len(last.calls) = 3
    /\ last.answers[1] = <<>>
    /\ last.answers[2] # <<>>
    /\ last.ret = AddrB

\* Search results with a resolved address whose name starts with the term.
PrefixCandidates ==
    {i \in DOMAIN SearchResults :
        /\ SearchResults[i].ra.tag = "dict"
        /\ Truthy(SearchResults[i].ra.id)
        /\ StartsWith(Lower(SearchResults[i].name), Lower(last.arg))}

\* C20. resolve_name last resort and absent: when the partial search was
\* made and no result with a resolved address has a name starting with the
\* term, resolve_name returns the resolved address of the first result; when
\* there is no result, or the first result has no resolved address, it
\* returns None.
C20_LastResortOrAbsent ==
    (/\ last.op = "resolve_name"
     /\ last.calls[Len(last.calls)].q = "ResolveNamePartial"
     /\ PrefixCandidates = {}) =>
        /\ ~last.raised
        /\ last.ret = IF /\ SearchResults # <<>>
                         /\ SearchResults[1].ra.tag = "dict"
                         /\ Truthy(SearchResults[1].ra.id)
                      THEN SearchResults[1].ra.id
                      ELSE None

----------------------------------------------------------------------------
(* C21: search_by_ens and resolve_name leave the in-memory cache and the     *)
(* document as they were, save nothing, and query the transport on every    *)
(* call, the first query carrying the lowercased argument, also when the    *)
(* call before it was the same call.                                        *)

NameOps == {"resolve_name", "search_by_ens"}

\* A step that is a call of a name operation.
NameStep == last'.op \in NameOps /\ now' = now

C21_NameOpsLeaveCache ==
    [][NameStep =>
          /\ cache' = cache
          /\ disk' = disk
          /\ last'.saves = 0
          /\ last'.calls # <<>>
          /\ last'.calls[1].v = Lower(last'.arg)]_vars

\* A name operation made several queries on an instance whose two entries
\* had been saved by address lookups.
C21_Witness ==
    /\ last.op \in NameOps
    /\ Len(cache) >= 2
    /\ disk = JsonFile(cache)
    /\ Len(last.calls) >= 2

----------------------------------------------------------------------------
(* C22: the grace window of legacy entries. *)

\* The cache holds the legacy entry of AddrA.
HoldsLegacy(c) == DictHas(c, AddrA) /\ DictGet(c, AddrA).name = NameOld

\* The document still has the legacy value of AddrA in bare form.
BareOnDisk ==
    \E i \in DOMAIN disk.doc : disk.doc[i].k = AddrA /\ disk.doc[i].v.tag = "bare"

\* What a save wrote is in the {name, timestamp} form.
SavedInEntryForm ==
    last.saves > 0 => \A i \in DOMAIN disk.doc : disk.doc[i].v.tag = "entry"

\* C22 as stated: a legacy entry first loaded at time T is in the cache of an
\* instance constructed before T + 1 hour and in the cache of none constructed
\* at or after T + 1 hour, whatever happened in between; a save writes it in
\* the {name, timestamp} form.
C22_GraceFromFirstLoad ==
    /\ (last.op = "init" /\ legacyAt[AddrA][1] >= 0) =>
           (HoldsLegacy(cache) <=> last.time < legacyAt[AddrA][1] + Grace)
    /\ SavedInEntryForm

\* C22, amended. While the document holds the legacy value in bare form, every
\* instance constructed from it, at any time, holds the entry, with timestamp
\* (load time) - cache_ttl + 1 hour. Once an instance that loaded it at time T
\* has saved, the document holds it in the {name, timestamp} form, and an
\* instance constructed later holds it if and only if it is constructed
\* before T + 1 hour. A save writes the {name, timestamp} form only.
C22_GraceFromLastBareLoad ==
    /\ (last.op = "init" /\ BareOnDisk) =>
           /\ HoldsLegacy(cache)
           /\ DictGet(cache, AddrA).timestamp = last.time - cache_ttl + Grace
    /\ (last.op = "init" /\ ~BareOnDisk /\ legacyAt[AddrA][2] >= 0) =>
           (HoldsLegacy(cache) <=> last.time < legacyAt[AddrA][2] + Grace)
    /\ SavedInEntryForm

\* An instance constructed an hour or more after the first load, and less than
\* an hour after the load of the instance that saved the entry, holds it.
C22_Witness ==
    /\ last.op = "init"
    /\ ~BareOnDisk
    /\ legacyAt[AddrA][1] = 0
    /\ legacyAt[AddrA][2] > 0
    /\ last.time >= Grace
    /\ HoldsLegacy(cache)

----------------------------------------------------------------------------
(* C23: lowercase keys and case-insensitive lookup. *)

\* Every key of the dict is a lowercase address.
LowercaseKeys(d) == \A k \in DictKeys(d) : k = Lower(k) /\ k \in Keys

\* C23. Every key of the in-memory cache, before and after every step, and
\* every key of a document a save wrote is a lowercase address. A
\* resolve_address call with an address whose lowercased form is a key of the
\* cache, in whatever letter case the address is given, makes no transport
\* call and returns the name of that entry; a resolve_addresses_batch call
\* reports for every such address the name of that entry under the lowercased
\* address and does not ask the transport for it. This includes entries the
\* instance loaded from the document.
C23_LowercaseKeys ==
    [][/\ LowercaseKeys(cache)
       /\ LowercaseKeys(cache')
       /\ last'.saves > 0 => LowercaseKeys(disk'.doc)
       /\ (CallStep("resolve_address") /\ DictHas(cache, Lower(last'.arg))) =>
              /\ last'.calls = <<>>
              /\ last'.ret = DictGet(cache, Lower(last'.arg)).name
       /\ CallStep("resolve_addresses_batch") =>
              \A a \in ValidInputs(last'.args) :
                  DictHas(cache, Lower(a)) =>
                      /\ DictHas(last'.results, Lower(a))
                      /\ DictGet(last'.results, Lower(a)) = DictGet(cache, Lower(a)).name
                      /\ \A c \in DOMAIN last'.calls :
                             Lower(a) \notin SeqSet(last'.calls[c].v)]_vars

\* An address given in capitals hit the entry that the instance had loaded
\* from the document under the lowercase key.
C23_Witness ==
    /\ last.op = "resolve_address"
    /\ last.arg = AddrAUpper
    /\ last.calls = <<>>
    /\ DictHas(cache, AddrA)
    /\ DictGet(cache, AddrA) = Entry(NameOne, -1)
    /\ last.ret = NameOne

----------------------------------------------------------------------------
(* C24: mutual exclusion of the store mutations. *)

\* The thread is between its first assignment to self._cache and the end of
\* the _save_cache that follows.
Mutating(th) == th.pc \in {"write", "save", "dump", "dumping"}

\* C24. No two threads are inside a cache mutation at the same time.
C24_MutualExclusion ==
    \A t, u \in Threads : (Mutating(threads[t]) /\ Mutating(threads[u])) => t = u

----------------------------------------------------------------------------
(* C25: a lost update leaves the in-memory cache well formed. *)

\* Both threads called resolve_address for the same key, both found it
\* uncached and asked the transport, and both have finished.
BothMissed(key) ==
    \A t \in Threads :
        /\ threads[t].pc = "done"
        /\ threads[t].op = "resolve_address"
        /\ threads[t].to_query = <<key>>

\* The cache has exactly one entry for the key, {name, timestamp}, whose name
\* is what one of the two calls returned.
OneEntryOfACaller(key) ==
    /\ Cardinality({i \in DOMAIN cache : cache[i].k = key}) = 1
    /\ DictGet(cache, key).tag = "entry"
    /\ DictGet(cache, key).timestamp \in 0..now
    /\ \E t \in Threads : DictGet(cache, key).name = threads[t].ret

\* The step is an assignment to self._cache[key] by some thread.
WritesKey(key) ==
    \E t \in Threads :
        /\ threads[t].pc = "write"
        /\ threads'[t] # threads[t]
        /\ Head(threads[t].pending).k = key

\* C25. When two threads have called resolve_address for the same uncached
\* address and both have returned, the in-memory cache holds exactly one
\* well-formed entry for the address, with the name returned to one of them;
\* and no step of a thread changes or removes an entry other than the one it
\* assigns.
C25_LostUpdateNotCorrupting ==
    [][/\ \A key \in Keys : BothMissed(key)' => OneEntryOfACaller(key)'
       /\ \A key \in DictKeys(cache) :
              ~WritesKey(key) =>
                  /\ DictHas(cache', key)
                  /\ DictGet(cache', key) = DictGet(cache, key)]_vars

\* Both threads asked the transport for AddrA; one was told a name and the
\* other nothing, and the cache holds one of the two, next to the entry of
\* AddrB it had before.
C25_Witness ==
    /\ BothMissed(AddrA)
    /\ threads[1].ret = NameOne
    /\ threads[2].ret = None
    /\ DictHas(cache, AddrB)
    /\ DictGet(cache, AddrA).name = None

----------------------------------------------------------------------------
(* C26: the last successful save wins. *)

\* The document is the mapping of the instance whose cache is c, and holds
\* nothing that only the other instance, whose cache is o, has.
DocumentOf(c, o) ==
    /\ disk = JsonFile(c)
    /\ \A k \in DictKeys(o) \ DictKeys(c) : ~DictHas(disk.doc, k)

\* C26. With two instances on the same file, the document is the in-memory
\* mapping of the instance that saved last, whole and unmerged: what the other
\* instance had persisted and the saving instance does not hold is not in the
\* document.
C26_LastSaveWins ==
    /\ savedBy = 1 => DocumentOf(cache, peer)
    /\ savedBy = 2 => DocumentOf(peer, cache)

\* The second instance looked AddrB up and saved it after the start; the first
\* instance, which does not hold AddrB, saved after that.
C26_Witness ==
    /\ savedBy = 1
    /\ DictHas(peer, AddrB)
    /\ DictGet(peer, AddrB).timestamp >= 1
    /\ DictGet(peer, AddrB).timestamp < now
    /\ ~DictHas(cache, AddrB)
    /\ DictHas(cache, AddrA)
    /\ DictGet(cache, AddrA).timestamp = now

----------------------------------------------------------------------------
(* C27: cached entries are stable within a process. *)

\* C27. No call on the instance removes an entry of the in-memory cache or
\* changes its name or its timestamp, whatever the transport returns.
C27_EntriesStable ==
    [][last'.op # "init" =>
          \A k \in DictKeys(cache) :
              /\ DictHas(cache', k)
              /\ DictGet(cache', k) = DictGet(cache, k)]_vars

----------------------------------------------------------------------------
(* C28: batch and single resolution on a fresh cache. *)

\* C28. For the same registry and any valid address of the list, the batch on
\* a fresh cache maps the lowercased address to the name that resolve_address
\* returns on a fresh cache, None when it returns None.
C28_BatchAgreesWithSingle ==
    (last.op = "lookup_both" /\ last.arg \notin {EmptyStr, Unknown}) =>
        /\ DictHas(last.results, Lower(last.arg))
        /\ DictGet(last.results, Lower(last.arg)) = last.ret

----------------------------------------------------------------------------
(* C29: the save/load round trip. *)

\* The step constructs a new instance from the document that the instance
\* before it saved from its cache.
LoadsWhatWasSaved ==
    /\ last'.op = "init"
    /\ now' = now
    /\ savedBy = 1
    /\ disk = JsonFile(cache)

\* C29. A new instance constructed at time T from the document an instance
\* saved holds the saved mapping restricted to the entries with
\* T - timestamp < cache_ttl, in the same order, each with the name (None
\* included) and the timestamp that were saved.
C29_SaveLoadRoundTrip ==
    [][LoadsWhatWasSaved =>
          cache' = SelectSeq(cache, LAMBDA it : now - it.v.timestamp < cache_ttl)]_vars

\* An instance was constructed from a document with two saved entries: it
\* dropped the one that had become stale and kept a negative entry, with the
\* timestamp of its lookup.
C29_Witness ==
    /\ last.op = "init"
    /\ savedBy = 1
    /\ Len(disk.doc) = 2
    /\ Len(cache) = 1
    /\ \A i \in DOMAIN disk.doc : disk.doc[i].v.tag = "entry"
    /\ cache[1].v.name = None
    /\ cache[1].v.timestamp = last.time - 1

====
